---------------------------- MODULE Spec2Model ----------------------------
(***************************************************************************)
(* A model of geo-clipper (src/src/lib.rs): the marshalling layer between  *)
(* geo-types shapes (f64 coordinates) and the Clipper engine (i64          *)
(* vertices, flat borrowed buffers), and the two orchestrators             *)
(* execute_boolean_operation and execute_offset_operation.                 *)
(*                                                                         *)
(* f64 values are modelled as exact reduced rationals [n, d]; within the   *)
(* small values used here every product and truncation is exact in f64     *)
(* too.  Raw pointers are modelled as views [buf, epoch, i, j] into the    *)
(* storage of an OwnedPolygon; a view is valid while its buffer is live    *)
(* and has not been mutated since the view was taken.                      *)
(***************************************************************************)
EXTENDS Integers, Sequences, FiniteSets, TLC

VARIABLES pc, call, params, subject_owned, clip_owned, mem, polygons,
          engineArgs, solution, freed, result, steps

vars == <<pc, call, params, subject_owned, clip_owned, mem, polygons,
          engineArgs, solution, freed, result, steps>>

---------------------------------------------------------------------------
(* Bounds of the model. *)

\* Largest size (rings/paths + points) of a subject shape in SpecConvert.
MaxShapeSize == 5

\* Largest size (rings/paths + points) of an operand shape in Spec.
MaxCallSize == 3

\* Largest size (polygons + paths + vertices) of an engine result in SpecDecode.
MaxResSize == 6

\* Largest size (descriptors + paths + vertices) of an OwnedPolygon in SpecOwned.
MaxOwnedSize == 4

---------------------------------------------------------------------------
(* f64 arithmetic, as exact rationals. *)

Abs(i) == IF i < 0 THEN -i ELSE i

RECURSIVE GCD(_, _)
GCD(a, b) == IF b = 0 THEN a ELSE GCD(b, a % b)

\* The rational n/d, reduced, with a positive denominator (d # 0).
R(n, d) ==
    LET s == IF d < 0 THEN -1 ELSE 1
        g == GCD(Abs(n), Abs(d))
    IN  [n |-> (s * n) \div g, d |-> (s * d) \div g]

Zero == R(0, 1)

\* a * b on f64
FMul(a, b) == R(a.n * b.n, a.d * b.d)

\* a / b on f64 (b # 0)
FDiv(a, b) == R(a.n * b.d, a.d * b.n)

\* `v as f64` for an i64 v
I64AsF64(v) == R(v, 1)

\* `a as i64` for an f64 a: truncation toward zero.
F64AsI64(a) == IF a.n >= 0 THEN a.n \div a.d ELSE -((-a.n) \div a.d)

---------------------------------------------------------------------------
(* geo-types shapes.  A LineString is a sequence of Coordinates [x, y]; a  *)
(* Polygon is [exterior, interiors]; a shape handed to the public API is    *)
(* [kind, polys, lines], with polys used by Polygon (one member) and        *)
(* MultiPolygon and lines used by LineString (one member) and               *)
(* MultiLineString.                                                         *)

Coordinate(x, y) == [x |-> x, y |-> y]

\* geo_types::LineString::close: a non-empty line string whose first and
\* last coordinates differ gets a copy of the first appended.
LineStringClose(ls) ==
    IF Len(ls) = 0 \/ ls[1] = ls[Len(ls)] THEN ls ELSE Append(ls, ls[1])

\* geo_types::Polygon::new: closes the exterior and every interior ring.
PolygonNew(exterior, interiors) ==
    [exterior  |-> LineStringClose(exterior),
     interiors |-> [k \in 1..Len(interiors) |-> LineStringClose(interiors[k])]]

PolygonShape(p)         == [kind |-> "Polygon", polys |-> <<p>>, lines |-> <<>>]
MultiPolygonShape(ps)   == [kind |-> "MultiPolygon", polys |-> ps, lines |-> <<>>]
MultiLineStringShape(l) == [kind |-> "MultiLineString", polys |-> <<>>, lines |-> l]
LineStringShape(l)      == [kind |-> "LineString", polys |-> <<>>, lines |-> <<l>>]
NoShape                 == [kind |-> "none", polys |-> <<>>, lines |-> <<>>]

---------------------------------------------------------------------------
(* The engine's types (clipper_sys).  A Vertice is <<x, y>> of i64; a Path  *)
(* is [vertices, vertices_count, closed]; a ClipperPolygon is               *)
(* [paths, paths_count, type_]; vertices and paths are raw pointers.        *)

NullView == [buf |-> "null", epoch |-> 0, i |-> 0, j |-> 0]

View(buf, epoch, i, j) == [buf |-> buf, epoch |-> epoch, i |-> i, j |-> j]

\* OwnedPolygon { polygons, paths, vertices }, all empty.
EmptyOwned == [polygons |-> <<>>, paths |-> <<>>, vertices |-> <<>>]

\* [(coordinate.x * factor) as i64, (coordinate.y * factor) as i64]
ToVertice(coordinate, factor) ==
    <<F64AsI64(FMul(coordinate.x, factor)), F64AsI64(FMul(coordinate.y, factor))>>

\* A ring converted without skipping its first coordinate.
RingVertices_NoSkip(line_string, factor) ==
    [k \in 1..Len(line_string) |-> ToVertice(line_string[k], factor)]

\* add_polygon's inner loop: line_string.0.iter().skip(1), each scaled.
RingVertices(line_string, factor) ==
    IF Len(line_string) = 0 THEN <<>>
    ELSE [k \in 1..(Len(line_string) - 1) |-> ToVertice(line_string[k + 1], factor)]

\* An open path converted as if it were a ring.
LineVertices_Skip(line_string, factor) ==
    IF Len(line_string) = 0 THEN <<>>
    ELSE [k \in 1..(Len(line_string) - 1) |-> ToVertice(line_string[k + 1], factor)]

\* add_line_strings' inner loop: line_string.0.iter(), each scaled.
LineVertices(line_string, factor) ==
    [k \in 1..Len(line_string) |-> ToVertice(line_string[k], factor)]

NewPath(closed) == [vertices |-> NullView, vertices_count |-> 0, closed |-> closed]

NewClipperPolygon(poly_type) ==
    [paths |-> NullView, paths_count |-> 0, type_ |-> poly_type]

\* std::iter::once(polygon.exterior()).chain(polygon.interiors().iter())
Rings(polygon) == <<polygon.exterior>> \o polygon.interiors

\* An add_polygon that pushes the polygon descriptor inside the loop over
\* the rings: one descriptor per ring instead of one per polygon.
AddPolygon_PushPerRing(self, polygon, poly_type, factor) ==
    LET rings == Rings(polygon)
    IN  [polygons |-> self.polygons
                      \o [k \in 1..Len(rings) |-> NewClipperPolygon(poly_type)],
         paths    |-> Append(self.paths, [k \in 1..Len(rings) |-> NewPath(1)]),
         vertices |-> Append(self.vertices,
                        [k \in 1..Len(rings) |-> RingVertices(rings[k], factor)])]

\* OwnedPolygon::add_polygon
AddPolygon(self, polygon, poly_type, factor) ==
    LET rings == Rings(polygon)
    IN  [polygons |-> Append(self.polygons, NewClipperPolygon(poly_type)),
         paths    |-> Append(self.paths, [k \in 1..Len(rings) |-> NewPath(1)]),
         vertices |-> Append(self.vertices,
                        [k \in 1..Len(rings) |-> RingVertices(rings[k], factor)])]

\* A conversion that validates: it leaves out the line strings that have
\* no point.
AddLineStrings_Validating(self, line_strings, poly_type, factor) ==
    LET kept == SelectSeq(line_strings, LAMBDA l : Len(l) > 0)
    IN  [polygons |-> Append(self.polygons, NewClipperPolygon(poly_type)),
         paths    |-> Append(self.paths, [k \in 1..Len(kept) |-> NewPath(0)]),
         vertices |-> Append(self.vertices,
                        [k \in 1..Len(kept) |-> LineVertices(kept[k], factor)])]

\* OwnedPolygon::add_line_strings
AddLineStrings(self, line_strings, poly_type, factor) ==
    [polygons |-> Append(self.polygons, NewClipperPolygon(poly_type)),
     paths    |-> Append(self.paths, [k \in 1..Len(line_strings) |-> NewPath(0)]),
     vertices |-> Append(self.vertices,
                    [k \in 1..Len(line_strings) |->
                        LineVertices(line_strings[k], factor)])]

\* OwnedPolygon::add_polygons: a fold of add_polygon over the members.
RECURSIVE AddPolygons(_, _, _, _)
AddPolygons(self, polys, poly_type, factor) ==
    IF polys = <<>> THEN self
    ELSE AddPolygons(AddPolygon(self, Head(polys), poly_type, factor),
                     Tail(polys), poly_type, factor)

\* The types that implement ToOwnedPolygon.
ToOwnedPolygonImpls == {"MultiPolygon", "Polygon", "MultiLineString"}

\* ToOwnedPolygon::to_polygon_owned, by the static type of the shape.
ToPolygonOwned(shape, poly_type, factor) ==
    CASE shape.kind = "MultiPolygon" ->
            AddPolygons(EmptyOwned, shape.polys, poly_type, factor)
      [] shape.kind = "Polygon" ->
            AddPolygon(EmptyOwned, shape.polys[1], poly_type, factor)
      [] shape.kind = "MultiLineString" ->
            AddLineStrings(EmptyOwned, shape.lines, poly_type, factor)

Min(a, b) == IF a < b THEN a ELSE b

\* OwnedPolygon::get_clipper_polygons: the zip-based walk that rewrites the
\* pointer and count of every path and polygon it reaches; buf and epoch
\* identify the storage the pointers are taken from.
GetClipperPolygons(self, buf, epoch) ==
    LET np == Min(Len(self.polygons), Min(Len(self.paths), Len(self.vertices)))
        nv(i) == Min(Len(self.paths[i]), Len(self.vertices[i]))
    IN  [polygons |-> [i \in 1..Len(self.polygons) |->
                         IF i <= np
                         THEN [self.polygons[i] EXCEPT
                                 !.paths = View(buf, epoch, i, 0),
                                 !.paths_count = Len(self.paths[i])]
                         ELSE self.polygons[i]],
         paths    |-> [i \in 1..Len(self.paths) |->
                         IF i <= np
                         THEN [j \in 1..Len(self.paths[i]) |->
                                 IF j <= nv(i)
                                 THEN [self.paths[i][j] EXCEPT
                                         !.vertices = View(buf, epoch, i, j),
                                         !.vertices_count = Len(self.vertices[i][j])]
                                 ELSE self.paths[i][j]]
                         ELSE self.paths[i]],
         vertices |-> self.vertices]

---------------------------------------------------------------------------
(* Decoding an engine result.  A result (Polygons) is a sequence of engine  *)
(* polygons, each a sequence of paths, each a sequence of Vertices.         *)

\* A path decoded back to front.
DecodePath_Reversed(path, factor) ==
    [k \in 1..Len(path) |->
        Coordinate(FDiv(I64AsF64(path[Len(path) + 1 - k][1]), factor),
                   FDiv(I64AsF64(path[Len(path) + 1 - k][2]), factor))]

\* From<ClipperPath> for LineString<f64>
DecodePath(path, factor) ==
    [k \in 1..Len(path) |->
        Coordinate(FDiv(I64AsF64(path[k][1]), factor),
                   FDiv(I64AsF64(path[k][2]), factor))]

\* A decoder that keeps the first path among the holes as well.
DecodePolygon_NoSkip(paths, factor) ==
    PolygonNew(DecodePath(paths[1], factor),
               [k \in 1..Len(paths) |-> DecodePath(paths[k], factor)])

\* The closure body of From<ClipperPolygons> for MultiPolygon<f64>, for an
\* engine polygon with at least one path: Polygon::new(first, skip(1)).
DecodePolygon(paths, factor) ==
    PolygonNew(DecodePath(paths[1], factor),
               [k \in 1..(Len(paths) - 1) |-> DecodePath(paths[k + 1], factor)])

\* From<ClipperPolygons> for MultiPolygon<f64>: filter_map over the engine
\* polygons; `paths.first()?` drops a polygon with no path.
RECURSIVE DecodeMultiPolygon(_, _)
DecodeMultiPolygon(sol, factor) ==
    IF sol = <<>> THEN <<>>
    ELSE (IF Len(Head(sol)) = 0 THEN <<>>
          ELSE <<DecodePolygon(Head(sol), factor)>>)
         \o DecodeMultiPolygon(Tail(sol), factor)

\* From<ClipperPolygons> for MultiLineString<f64>: flat_map over the engine
\* polygons of their paths.
RECURSIVE DecodeMultiLineString(_, _)
DecodeMultiLineString(sol, factor) ==
    IF sol = <<>> THEN <<>>
    ELSE [k \in 1..Len(Head(sol)) |-> DecodePath(Head(sol)[k], factor)]
         \o DecodeMultiLineString(Tail(sol), factor)

\* R: From<ClipperPolygons>, by the result type the caller's trait fixes.
Into(target, sol, factor) ==
    IF target = "MultiPolygon"
    THEN MultiPolygonShape(DecodeMultiPolygon(sol, factor))
    ELSE MultiLineStringShape(DecodeMultiLineString(sol, factor))

---------------------------------------------------------------------------
(* Join and end types, and the parameters derived from them.  A JoinType   *)
(* or EndType is [tag, val]; val is the payload of Round, Miter and        *)
(* OpenRound and is Zero (unused) for the other variants.                  *)

JoinSquare   == [tag |-> "Square", val |-> Zero]
JoinRound(p) == [tag |-> "Round", val |-> p]
JoinMiter(l) == [tag |-> "Miter", val |-> l]

EndClosedPolygon == [tag |-> "ClosedPolygon", val |-> Zero]
EndClosedLine    == [tag |-> "ClosedLine", val |-> Zero]
EndOpenButt      == [tag |-> "OpenButt", val |-> Zero]
EndOpenSquare    == [tag |-> "OpenSquare", val |-> Zero]
EndOpenRound(p)  == [tag |-> "OpenRound", val |-> p]

\* From<JoinType> for ClipperJoinType
JoinTypeCode(jt) ==
    CASE jt.tag = "Square" -> "jtSquare"
      [] jt.tag = "Round"  -> "jtRound"
      [] jt.tag = "Miter"  -> "jtMiter"

\* From<EndType> for ClipperEndType
EndTypeCode(et) ==
    CASE et.tag = "ClosedPolygon" -> "etClosedPolygon"
      [] et.tag = "ClosedLine"    -> "etClosedLine"
      [] et.tag = "OpenButt"      -> "etOpenButt"
      [] et.tag = "OpenSquare"    -> "etOpenSquare"
      [] et.tag = "OpenRound"     -> "etOpenRound"

\* let miter_limit = match jt { Miter(limit) => limit, _ => 0.0 }
MiterLimit(jt) == IF jt.tag = "Miter" THEN jt.val ELSE Zero

\* A derivation in which the end type's precision is looked at first.
RoundPrecision_EndFirst(jt, et) ==
    IF et.tag = "OpenRound" THEN et.val
    ELSE IF jt.tag = "Round" THEN jt.val ELSE Zero

\* let round_precision = match jt { Round(p) => p,
\*     _ => match et { OpenRound(p) => p, _ => 0.0 } }
RoundPrecision(jt, et) ==
    IF jt.tag = "Round" THEN jt.val
    ELSE IF et.tag = "OpenRound" THEN et.val ELSE Zero

---------------------------------------------------------------------------
(* The capability API: which methods a shape type has.                     *)

\* impl OpenPath for MultiLineString<f64>, LineString<f64>
OpenPathImpls == {"MultiLineString", "LineString"}

\* impl ClosedPoly for MultiPolygon<f64>, Polygon<f64>
ClosedPolyImpls == {"MultiPolygon", "Polygon"}

\* trait Clipper
ClipperMethods == {"difference", "intersection", "union", "xor", "offset"}

\* trait ClipperOpen
ClipperOpenMethods == {"difference", "intersection", "offset"}

\* impl<U: ToOwnedPolygon + ClosedPoly + ?Sized> Clipper for U
ClipperImpls == ToOwnedPolygonImpls \cap ClosedPolyImpls

\* impl<U: ToOwnedPolygon + OpenPath + ?Sized> ClipperOpen for U
ClipperOpenImpls == ToOwnedPolygonImpls \cap OpenPathImpls

\* The methods the compiler resolves on a value of the type `kind`.
Methods(kind) ==
    (IF kind \in ClipperImpls THEN ClipperMethods ELSE {})
    \cup (IF kind \in ClipperOpenImpls THEN ClipperOpenMethods ELSE {})

\* other: &T with T: ToOwnedPolygon + ClosedPoly
ClipOperandOk(kind) == kind \in ToOwnedPolygonImpls \cap ClosedPolyImpls

\* The result type of a method on a value of the type `kind`: offset
\* returns MultiPolygon in both traits, the boolean methods return
\* MultiPolygon in Clipper and MultiLineString in ClipperOpen.
ResultType(kind, op) ==
    IF op = "offset" \/ kind \in ClipperImpls
    THEN "MultiPolygon" ELSE "MultiLineString"

\* The ClipType constant each boolean method passes.
ClipTypeOf(op) ==
    CASE op = "difference"   -> "ctDifference"
      [] op = "intersection" -> "ctIntersection"
      [] op = "union"        -> "ctUnion"
      [] op = "xor"          -> "ctXor"
      [] OTHER               -> "none"

---------------------------------------------------------------------------
(* The orchestrators, as the sequence of their statements.                 *)

\* An orchestrator that returns straight after decoding.
StepsOf_NoFree(orch) ==
    IF orch = "boolean"
    THEN <<"ToOwnedSubject", "ToOwnedClip", "MaterializeSubject",
           "MaterializeClip", "Collect", "EngineCall", "Decode", "Return">>
    ELSE <<"DeriveParams", "ToOwnedSubject", "MaterializeSubject", "Collect",
           "EngineCall", "Decode", "Return">>

\* An orchestrator that takes the subject's descriptors before the clip
\* operand is converted and releases the result before decoding it.
StepsOf_Reordered(orch) ==
    IF orch = "boolean"
    THEN <<"ToOwnedSubject", "MaterializeSubject", "MaterializeClip",
           "ToOwnedClip", "Collect", "EngineCall", "Free", "Decode", "Return">>
    ELSE <<"DeriveParams", "MaterializeSubject", "ToOwnedSubject", "Collect",
           "EngineCall", "Free", "Decode", "Return">>

\* The statements of execute_boolean_operation and of
\* execute_offset_operation, in program order.
StepsOf(orch) ==
    IF orch = "boolean"
    THEN <<"ToOwnedSubject", "ToOwnedClip", "MaterializeSubject",
           "MaterializeClip", "Collect", "EngineCall", "Decode", "Free",
           "Return">>
    ELSE <<"DeriveParams", "ToOwnedSubject", "MaterializeSubject", "Collect",
           "EngineCall", "Decode", "Free", "Return">>

FirstStep(orch) == StepsOf(orch)[1]

\* The statement that follows `step`; "returned" after the last one.
StepAfter(orch, step) ==
    LET seq == StepsOf(orch)
        k   == CHOOSE i \in 1..Len(seq) : seq[i] = step
    IN  IF k = Len(seq) THEN "returned" ELSE seq[k + 1]

\* An offset method that hands delta on unscaled.
OffsetDelta_Unscaled(delta, factor) == delta

\* Clipper::offset and ClipperOpen::offset pass `delta * factor`.
OffsetDelta(delta, factor) == FMul(delta, factor)

\* The arguments of the orchestrator a public method calls:
\* execute_boolean_operation(clip_type, self, other, factor) or
\* execute_offset_operation(self, delta * factor, join_type, end_type, factor).
\* pub_delta keeps the public method's own delta argument.
OrchestratorCall(c) ==
    [orch      |-> IF c.op = "offset" THEN "offset" ELSE "boolean",
     op        |-> c.op,
     clip_type |-> ClipTypeOf(c.op),
     subject   |-> c.subject,
     clip      |-> c.clip,
     factor    |-> c.factor,
     pub_delta |-> c.delta,
     delta     |-> IF c.op = "offset" THEN OffsetDelta(c.delta, c.factor) ELSE Zero,
     jt        |-> c.jt,
     et        |-> c.et,
     target    |-> ResultType(c.subject.kind, c.op)]

NoCall ==
    [orch |-> "none", op |-> "none", clip_type |-> "none", subject |-> NoShape,
     clip |-> NoShape, factor |-> R(1, 1), pub_delta |-> Zero, delta |-> Zero,
     jt |-> JoinSquare, et |-> EndClosedPolygon, target |-> "none"]

NoParams == [miter_limit |-> Zero, round_precision |-> Zero]

NoEngineArgs ==
    [fn |-> "none", clip_type |-> "none", polygons |-> <<>>, valid |-> TRUE,
     input |-> <<>>, subj_fill |-> "none", clip_fill |-> "none",
     miter_limit |-> Zero, round_precision |-> Zero, join_type |-> "none",
     end_type |-> "none", delta |-> Zero]

\* The storage of the two local OwnedPolygon values: whether it is live, and
\* how many times it has been mutated (pushed to) since it was created.
NoMem ==
    [subject |-> [live |-> FALSE, epoch |-> 0],
     clip    |-> [live |-> FALSE, epoch |-> 0]]

\* A raw pointer may be read while its buffer is live and unmutated since
\* the pointer was taken; a null pointer may not.
ViewValid(v, m) ==
    /\ v.buf \in {"subject", "clip"}
    /\ m[v.buf].live
    /\ m[v.buf].epoch = v.epoch

\* Every pointer the engine follows from the descriptor list: each
\* polygon's paths pointer and, behind it, each path's vertices pointer.
AllViewsValid(list, so, co, m) ==
    \A k \in 1..Len(list) :
        /\ ViewValid(list[k].paths, m)
        /\ LET o  == IF list[k].paths.buf = "subject" THEN so ELSE co
               ps == o.paths[list[k].paths.i]
           IN  \A j \in 1..list[k].paths_count : ViewValid(ps[j].vertices, m)

\* What the engine reads through valid pointers: per descriptor its role
\* tag and, per path, the closed flag and the vertex run.
EngineInput(list, so, co) ==
    [k \in 1..Len(list) |->
        LET o  == IF list[k].paths.buf = "subject" THEN so ELSE co
            ps == o.paths[list[k].paths.i]
        IN  [type_ |-> list[k].type_,
             paths |-> [j \in 1..list[k].paths_count |->
                          [closed   |-> ps[j].closed,
                           vertices |-> SubSeq(o.vertices[ps[j].vertices.i][ps[j].vertices.j],
                                               1, ps[j].vertices_count)]]]]

\* The operands chained clip first.
ChainCloned_ClipFirst(subject_descs, clip_descs) == clip_descs \o subject_descs

\* subject.iter().chain(clip.iter()).cloned().collect()
ChainCloned(subject_descs, clip_descs) == subject_descs \o clip_descs

---------------------------------------------------------------------------
(* The state machine: one public method call at a time, statement by       *)
(* statement.  pc names the statement about to run; steps is the history   *)
(* of the statements run in the current call.                              *)

Init ==
    /\ pc = "idle"
    /\ call = NoCall
    /\ params = NoParams
    /\ subject_owned = EmptyOwned
    /\ clip_owned = EmptyOwned
    /\ mem = NoMem
    /\ polygons = <<>>
    /\ engineArgs = NoEngineArgs
    /\ solution = <<>>
    /\ freed = 0
    /\ result = NoShape
    /\ steps = <<>>

\* Whether the method call c type-checks: the method exists on the type of
\* self and, for a boolean method, other is a closed-polygonal operand.
Accepted(c) ==
    /\ c.op \in Methods(c.subject.kind)
    /\ c.op # "offset" => ClipOperandOk(c.clip.kind)

\* A public method call c = [op, subject, clip, factor, delta, jt, et] that
\* the compiler accepts enters its orchestrator with fresh locals.  Calls
\* share no state, so a behaviour follows one call from entry to return.
Invoke(Calls) ==
    /\ pc = "idle"
    /\ \E c \in Calls :
        /\ Accepted(c)
        /\ call' = OrchestratorCall(c)
        /\ pc' = FirstStep(IF c.op = "offset" THEN "offset" ELSE "boolean")
    /\ params' = NoParams
    /\ subject_owned' = EmptyOwned
    /\ clip_owned' = EmptyOwned
    /\ mem' = NoMem
    /\ polygons' = <<>>
    /\ engineArgs' = NoEngineArgs
    /\ solution' = <<>>
    /\ freed' = 0
    /\ result' = NoShape
    /\ steps' = <<>>

\* A method call that does not type-check is rejected at compile time: no
\* orchestrator runs.  call records the rejected call.
Reject(Calls) ==
    /\ pc = "idle"
    /\ \E c \in Calls :
        /\ ~Accepted(c)
        /\ call' = OrchestratorCall(c)
    /\ pc' = "rejected"
    /\ UNCHANGED <<params, subject_owned, clip_owned, mem, polygons, engineArgs,
                   solution, freed, result, steps>>

Advance(step) ==
    /\ pc' = StepAfter(call.orch, step)
    /\ steps' = Append(steps, step)

\* execute_offset_operation: miter_limit and round_precision.
DeriveParams ==
    /\ pc = "DeriveParams"
    /\ params' = [miter_limit     |-> MiterLimit(call.jt),
                  round_precision |-> RoundPrecision(call.jt, call.et)]
    /\ Advance("DeriveParams")
    /\ UNCHANGED <<call, subject_owned, clip_owned, mem, polygons, engineArgs,
                   solution, freed, result>>

\* let mut subject_owned = subject_polygons.to_polygon_owned(PolyType_ptSubject, factor)
\* (in execute_offset_operation: let mut owned = ...)
ToOwnedSubject ==
    /\ pc = "ToOwnedSubject"
    /\ LET o == ToPolygonOwned(call.subject, "ptSubject", call.factor)
       IN  /\ subject_owned' = o
           /\ mem' = [mem EXCEPT !.subject = [live |-> TRUE, epoch |-> Len(o.polygons)]]
    /\ Advance("ToOwnedSubject")
    /\ UNCHANGED <<call, params, clip_owned, polygons, engineArgs, solution,
                   freed, result>>

\* let mut clip_owned = clip_polygons.to_polygon_owned(PolyType_ptClip, factor)
ToOwnedClip ==
    /\ pc = "ToOwnedClip"
    /\ LET o == ToPolygonOwned(call.clip, "ptClip", call.factor)
       IN  /\ clip_owned' = o
           /\ mem' = [mem EXCEPT !.clip = [live |-> TRUE, epoch |-> Len(o.polygons)]]
    /\ Advance("ToOwnedClip")
    /\ UNCHANGED <<call, params, subject_owned, polygons, engineArgs, solution,
                   freed, result>>

\* subject_owned.get_clipper_polygons()
MaterializeSubject ==
    /\ pc = "MaterializeSubject"
    /\ subject_owned' = GetClipperPolygons(subject_owned, "subject", mem.subject.epoch)
    /\ Advance("MaterializeSubject")
    /\ UNCHANGED <<call, params, clip_owned, mem, polygons, engineArgs, solution,
                   freed, result>>

\* clip_owned.get_clipper_polygons()
MaterializeClip ==
    /\ pc = "MaterializeClip"
    /\ clip_owned' = GetClipperPolygons(clip_owned, "clip", mem.clip.epoch)
    /\ Advance("MaterializeClip")
    /\ UNCHANGED <<call, params, subject_owned, mem, polygons, engineArgs,
                   solution, freed, result>>

\* The flat descriptor list: .iter().chain(...).cloned().collect() in
\* execute_boolean_operation, .clone() in execute_offset_operation.
Collect ==
    /\ pc = "Collect"
    /\ polygons' = IF call.orch = "boolean"
                   THEN ChainCloned(subject_owned.polygons, clip_owned.polygons)
                   ELSE subject_owned.polygons
    /\ Advance("Collect")
    /\ UNCHANGED <<call, params, subject_owned, clip_owned, mem, engineArgs,
                   solution, freed, result>>

\* unsafe { execute(clip_type, clipper_polygons, NonZero, NonZero) } or
\* unsafe { offset(miter_limit, round_precision, jt.into(), et.into(),
\* clipper_polygons, delta) }.  The engine is opaque: it returns any result
\* of Sols.  engineArgs records what it was handed and what it read.
EngineCall(Sols) ==
    /\ pc = "EngineCall"
    /\ \E sol \in Sols : solution' = sol
    /\ LET ok == AllViewsValid(polygons, subject_owned, clip_owned, mem)
           inp == IF ok THEN EngineInput(polygons, subject_owned, clip_owned) ELSE <<>>
       IN  engineArgs' =
             IF call.orch = "boolean"
             THEN [NoEngineArgs EXCEPT
                     !.fn = "execute", !.clip_type = call.clip_type,
                     !.polygons = polygons, !.valid = ok, !.input = inp,
                     !.subj_fill = "pftNonZero", !.clip_fill = "pftNonZero"]
             ELSE [NoEngineArgs EXCEPT
                     !.fn = "offset", !.polygons = polygons, !.valid = ok,
                     !.input = inp,
                     !.miter_limit = params.miter_limit,
                     !.round_precision = params.round_precision,
                     !.join_type = JoinTypeCode(call.jt),
                     !.end_type = EndTypeCode(call.et),
                     !.delta = call.delta]
    /\ Advance("EngineCall")
    /\ UNCHANGED <<call, params, subject_owned, clip_owned, mem, polygons, freed,
                   result>>

\* let result = ClipperPolygons { polygons: solution, factor }.into();
\* reading a released result is undefined: it may read the result's old
\* contents or nothing.
Decode ==
    /\ pc = "Decode"
    /\ \E sol \in (IF freed = 0 THEN {solution} ELSE {solution, <<>>}) :
          result' = Into(call.target, sol, call.factor)
    /\ Advance("Decode")
    /\ UNCHANGED <<call, params, subject_owned, clip_owned, mem, polygons,
                   engineArgs, solution, freed>>

\* unsafe { free_polygons(solution); }
Free ==
    /\ pc = "Free"
    /\ freed' = freed + 1
    /\ Advance("Free")
    /\ UNCHANGED <<call, params, subject_owned, clip_owned, mem, polygons,
                   engineArgs, solution, result>>

\* `result` is returned; the locals, the owned buffers among them, drop.
Return ==
    /\ pc = "Return"
    /\ mem' = NoMem
    /\ Advance("Return")
    /\ UNCHANGED <<call, params, subject_owned, clip_owned, polygons, engineArgs,
                   solution, freed, result>>

---------------------------------------------------------------------------
(* The inputs the model draws from.                                        *)

\* Caller coordinates: halves, negative and positive, so that scaling by 1
\* truncates and scaling by 2 is exact.
Coordinates ==
    {Coordinate(R(3, 2), R(-3, 2)), Coordinate(R(5, 2), R(1, 1))}

\* The one coordinate of the operands of Spec, where the claims are about
\* the calls and not about the order of the points.
CallCoordinates == {Coordinate(R(3, 2), R(-3, 2))}

Factors == {R(1, 1), R(2, 1)}

Deltas == {R(5, 1), R(-1, 2)}

JoinTypes == {JoinSquare, JoinRound(R(1, 4)), JoinMiter(R(2, 1))}

EndTypes ==
    {EndClosedPolygon, EndClosedLine, EndOpenButt, EndOpenSquare,
     EndOpenRound(R(3, 1))}

\* Engine vertices.
Vertices == {<<3, -3>>, <<5, 2>>}

\* The sequences over S of length n.
SeqsOfLen(S, n) == [1..n -> S]

\* The sequences of line strings over the coordinates C whose size (the
\* number of line strings plus the number of their points) is exactly m.
RECURSIVE LineSeqs(_, _)
LineSeqs(C, m) ==
    IF m = 0 THEN {<<>>}
    ELSE UNION {{<<l>> \o rest : l \in SeqsOfLen(C, u - 1),
                                 rest \in LineSeqs(C, m - u)} : u \in 1..m}

\* The polygons Polygon::new builds from an exterior and interiors of
\* size u together (u >= 1).
PolygonsOfSize(C, u) == {PolygonNew(Head(ls), Tail(ls)) : ls \in LineSeqs(C, u)}

\* The sequences of polygons of size m together.
RECURSIVE PolygonSeqs(_, _)
PolygonSeqs(C, m) ==
    IF m = 0 THEN {<<>>}
    ELSE UNION {{<<q>> \o rest : q \in PolygonsOfSize(C, u),
                                 rest \in PolygonSeqs(C, m - u)} : u \in 1..m}

\* Polygon and MultiPolygon values of size at most n.
ClosedShapes(C, n) ==
    {PolygonShape(q) : q \in UNION {PolygonsOfSize(C, u) : u \in 1..n}}
    \cup {MultiPolygonShape(ps) : ps \in UNION {PolygonSeqs(C, m) : m \in 0..n}}

\* MultiLineString values of size at most n.
OpenShapes(C, n) ==
    {MultiLineStringShape(l) : l \in UNION {LineSeqs(C, m) : m \in 0..n}}

\* LineString values of at most n points.
LineStringShapes(C, n) ==
    {LineStringShape(l) : l \in UNION {SeqsOfLen(C, k) : k \in 0..n}}

\* The sequences of engine paths whose size (paths plus vertices) is m.
RECURSIVE PathSeqs(_)
PathSeqs(m) ==
    IF m = 0 THEN {<<>>}
    ELSE UNION {{<<q>> \o rest : q \in SeqsOfLen(Vertices, u - 1),
                                 rest \in PathSeqs(m - u)} : u \in 1..m}

\* The sequences of engine polygons whose size (polygons plus paths plus
\* vertices) is m.
RECURSIVE EnginePolygonSeqs(_)
EnginePolygonSeqs(m) ==
    IF m = 0 THEN {<<>>}
    ELSE UNION {{<<q>> \o rest : q \in PathSeqs(u - 1),
                                 rest \in EnginePolygonSeqs(m - u)} : u \in 1..m}

\* Engine results of size at most n.
EngineResults(n) == UNION {EnginePolygonSeqs(m) : m \in 0..n}

BooleanCalls(Ops, Subjects, Clips, Fs) ==
    {[op |-> o, subject |-> sb, clip |-> cl, factor |-> f, delta |-> Zero,
      jt |-> JoinSquare, et |-> EndClosedPolygon] :
        o \in Ops, sb \in Subjects, cl \in Clips, f \in Fs}

OffsetCalls(Subjects, Ds, JTs, ETs, Fs) ==
    {[op |-> "offset", subject |-> sb, clip |-> NoShape, factor |-> f,
      delta |-> dl, jt |-> j, et |-> e] :
        sb \in Subjects, dl \in Ds, j \in JTs, e \in ETs, f \in Fs}

\* A triangle, given unclosed, and a two-point path.
SamplePolygon ==
    PolygonNew(<<Coordinate(R(3, 2), R(-3, 2)), Coordinate(R(5, 2), R(1, 1)),
                 Coordinate(R(5, 2), R(-3, 2))>>, <<>>)

SampleLines ==
    <<<<Coordinate(R(3, 2), R(-3, 2)), Coordinate(R(5, 2), R(1, 1))>>>>

\* An empty engine result, and one polygon with an exterior and a hole.
SampleSolutions ==
    {<<>>, <<<<<<<<3, -3>>, <<5, 2>>, <<5, -3>>>>, <<<<4, 0>>>>>>>>}

\* Spec: every method on every shape type, operands of size <= MaxCallSize;
\* the boolean methods with one factor, offset with every factor.
Calls ==
    LET closed == ClosedShapes(CallCoordinates, MaxCallSize)
        open   == OpenShapes(CallCoordinates, MaxCallSize)
        lines  == LineStringShapes(CallCoordinates, MaxCallSize)
        all    == closed \cup open \cup lines
    IN  BooleanCalls({"difference", "intersection", "union", "xor"}, all,
                     closed \cup OpenShapes(CallCoordinates, 0), {R(2, 1)})
        \cup OffsetCalls(all, Deltas, JoinTypes, EndTypes, Factors)

\* SpecConvert: subjects of size <= MaxShapeSize, one clip, one method of
\* each orchestrator.
ConvertCalls ==
    LET subjects == ClosedShapes(Coordinates, MaxShapeSize)
                    \cup OpenShapes(Coordinates, MaxShapeSize)
    IN  BooleanCalls({"difference"}, subjects, {PolygonShape(SamplePolygon)}, Factors)
        \cup OffsetCalls(subjects, {R(5, 1)}, {JoinSquare}, {EndClosedPolygon}, Factors)

\* SpecDecode: one subject of each result type, engine results of size
\* <= MaxResSize.
DecodeCalls ==
    LET subjects == {PolygonShape(SamplePolygon), MultiLineStringShape(SampleLines)}
    IN  BooleanCalls({"intersection"}, subjects, {PolygonShape(SamplePolygon)}, Factors)
        \cup OffsetCalls(subjects, {R(5, 1)}, {JoinMiter(R(5, 1))}, {EndOpenSquare}, Factors)

\* The engine results SpecDecode draws from.
DecodeSolutions == EngineResults(MaxResSize)

Run(Sols) ==
    \/ DeriveParams
    \/ ToOwnedSubject
    \/ ToOwnedClip
    \/ MaterializeSubject
    \/ MaterializeClip
    \/ Collect
    \/ EngineCall(Sols)
    \/ Decode
    \/ Free
    \/ Return

Next == Invoke(Calls) \/ Reject(Calls) \/ Run(SampleSolutions)

Spec == Init /\ [][Next]_vars

NextConvert == Invoke(ConvertCalls) \/ Run(SampleSolutions)

SpecConvert == Init /\ [][NextConvert]_vars

NextDecode == Invoke(DecodeCalls) \/ Run(DecodeSolutions)

SpecDecode == Init /\ [][NextDecode]_vars

---------------------------------------------------------------------------
(* OwnedPolygon on its own: any sequence of add_polygon, add_polygons,     *)
(* add_line_strings and get_clipper_polygons on one value, held in         *)
(* subject_owned.  pc is "building" after an add (the descriptors pushed   *)
(* since the last walk still hold their initial null views) and            *)
(* "materialized" after get_clipper_polygons.                              *)

RECURSIVE SumLen(_)
SumLen(seqs) == IF seqs = <<>> THEN 0 ELSE Len(Head(seqs)) + SumLen(Tail(seqs))

RECURSIVE SumSumLen(_)
SumSumLen(seqs) ==
    IF seqs = <<>> THEN 0 ELSE SumLen(Head(seqs)) + SumSumLen(Tail(seqs))

\* What an OwnedPolygon stores: descriptors, paths and vertices.
OwnedSize(o) == Len(o.polygons) + SumLen(o.paths) + SumSumLen(o.vertices)

PolyTypes == {"ptSubject", "ptClip"}

\* The factor of the add_* calls of SpecOwned.
OwnedFactors == {R(2, 1)}

\* The arguments of the add_* calls of SpecOwned.
OwnedPolygonArgs ==
    UNION {PolygonsOfSize(CallCoordinates, u) : u \in 1..MaxOwnedSize}

OwnedMultiPolygonArgs ==
    UNION {PolygonSeqs(CallCoordinates, m) : m \in 0..MaxOwnedSize}

OwnedLineStringsArgs ==
    UNION {LineSeqs(CallCoordinates, m) : m \in 0..MaxOwnedSize}

\* OwnedPolygon { polygons: Vec::with_capacity(..), paths: .., vertices: .. }
InitOwned ==
    /\ pc = "building"
    /\ call = NoCall
    /\ params = NoParams
    /\ subject_owned = EmptyOwned
    /\ clip_owned = EmptyOwned
    /\ mem = [NoMem EXCEPT !.subject = [live |-> TRUE, epoch |-> 0]]
    /\ polygons = <<>>
    /\ engineArgs = NoEngineArgs
    /\ solution = <<>>
    /\ freed = 0
    /\ result = NoShape
    /\ steps = <<>>

\* The value becomes o; its storage has been pushed to once per descriptor.
OwnedBecomes(o) ==
    /\ OwnedSize(o) <= MaxOwnedSize
    /\ subject_owned' = o
    /\ mem' = [mem EXCEPT !.subject.epoch = Len(o.polygons)]
    /\ pc' = "building"
    /\ UNCHANGED <<call, params, clip_owned, polygons, engineArgs, solution,
                   freed, result, steps>>

\* self.add_polygon(polygon, poly_type, factor)
AddPolygonCall ==
    /\ pc \in {"building", "materialized"}
    /\ \E q \in OwnedPolygonArgs, t \in PolyTypes, f \in OwnedFactors :
          OwnedBecomes(AddPolygon(subject_owned, q, t, f))

\* self.add_polygons(polygon, poly_type, factor)
AddPolygonsCall ==
    /\ pc \in {"building", "materialized"}
    /\ \E ps \in OwnedMultiPolygonArgs, t \in PolyTypes, f \in OwnedFactors :
          OwnedBecomes(AddPolygons(subject_owned, ps, t, f))

\* self.add_line_strings(line_strings, poly_type, factor)
AddLineStringsCall ==
    /\ pc \in {"building", "materialized"}
    /\ \E ls \in OwnedLineStringsArgs, t \in PolyTypes, f \in OwnedFactors :
          OwnedBecomes(AddLineStrings(subject_owned, ls, t, f))

\* self.get_clipper_polygons()
GetClipperPolygonsCall ==
    /\ pc \in {"building", "materialized"}
    /\ subject_owned' = GetClipperPolygons(subject_owned, "subject", mem.subject.epoch)
    /\ pc' = "materialized"
    /\ UNCHANGED <<call, params, clip_owned, mem, polygons, engineArgs, solution,
                   freed, result, steps>>

NextOwned ==
    \/ AddPolygonCall
    \/ AddPolygonsCall
    \/ AddLineStringsCall
    \/ GetClipperPolygonsCall

SpecOwned == InitOwned /\ [][NextOwned]_vars

---------------------------------------------------------------------------
(* Properties.  Each is stated in its own terms (cross-multiplied          *)
(* rationals, positions in the inputs), not through the operators above.   *)

Ran(step) == \E k \in 1..Len(steps) : steps[k] = step

Count(step) == Cardinality({k \in 1..Len(steps) : steps[k] = step})

\* The integer v is the product a * f truncated toward zero.
IsTruncatedProduct(v, a, f) ==
    LET num == a.n * f.n
        den == a.d * f.d
    IN  /\ num >= 0 => (v * den <= num /\ num < (v + 1) * den)
        /\ num < 0  => ((v - 1) * den < num /\ num <= v * den)

\* The engine vertex v is the coordinate c scaled by f.
IsScaledVertex(v, c, f) ==
    /\ IsTruncatedProduct(v[1], c.x, f)
    /\ IsTruncatedProduct(v[2], c.y, f)

\* The rational q is the integer v divided by f.
IsQuotient(q, v, f) == q.n * f.n = v * f.d * q.d

\* The coordinate c is the engine vertex v divided by f.
IsUnscaledVertex(c, v, f) ==
    /\ IsQuotient(c.x, v[1], f)
    /\ IsQuotient(c.y, v[2], f)

\* C1: in every call of either orchestrator the engine result is released
\* exactly once: never twice, never without an engine call having produced
\* it, and once by the time the call returns, whatever the decoded result.
C1_ReleasedExactlyOnce ==
    /\ freed <= 1
    /\ freed = 1 => Ran("EngineCall")
    /\ pc \in {"Return", "returned"} =>
          /\ call.orch \in {"boolean", "offset"}
          /\ Count("EngineCall") = 1
          /\ freed = 1

\* A boolean call has returned an empty decoded result and released the
\* engine result once.
C1_Witness ==
    /\ pc = "returned"
    /\ call.orch = "boolean"
    /\ result.polys = <<>> /\ result.lines = <<>>
    /\ freed = 1

\* The r-th ring of a polygon: the exterior, then the interiors in order.
RingOf(polygon, r) ==
    IF r = 1 THEN polygon.exterior ELSE polygon.interiors[r - 1]

\* C2: once a Polygon or MultiPolygon subject is converted, polygon i of the
\* buffer has one path per ring (exterior, then interiors in order), each
\* with closed = 1; a ring of N >= 1 points whose first and last points are
\* equal has a vertex run of exactly N - 1 vertices, which are the scaled
\* points of the ring with one endpoint left out and the order kept; after
\* materialization the path's vertices_count is N - 1 as well.
C2_ClosedRingDropsOneEndpoint ==
    (Ran("ToOwnedSubject") /\ call.subject.kind \in {"Polygon", "MultiPolygon"}) =>
      /\ Len(subject_owned.paths) = Len(call.subject.polys)
      /\ Len(subject_owned.vertices) = Len(call.subject.polys)
      /\ \A i \in 1..Len(call.subject.polys) :
           LET polygon == call.subject.polys[i]
               nrings  == 1 + Len(polygon.interiors)
           IN  /\ Len(subject_owned.paths[i]) = nrings
               /\ Len(subject_owned.vertices[i]) = nrings
               /\ \A r \in 1..nrings :
                    LET ring == RingOf(polygon, r)
                        N    == Len(ring)
                        vs   == subject_owned.vertices[i][r]
                    IN  /\ subject_owned.paths[i][r].closed = 1
                        /\ (N >= 1 /\ ring[1] = ring[N]) =>
                             /\ Len(vs) = N - 1
                             /\ \/ \A k \in 1..(N - 1) :
                                     IsScaledVertex(vs[k], ring[k + 1], call.factor)
                                \/ \A k \in 1..(N - 1) :
                                     IsScaledVertex(vs[k], ring[k], call.factor)
                             /\ Ran("MaterializeSubject") =>
                                  subject_owned.paths[i][r].vertices_count = N - 1

\* A polygon with a closed exterior of three points, the first two
\* different, and an interior ring of at least one point has been converted
\* with a factor under which scaling truncates.
C2_Witness ==
    /\ Ran("MaterializeSubject")
    /\ call.subject.kind = "Polygon"
    /\ call.factor = R(1, 1)
    /\ LET polygon == call.subject.polys[1]
       IN  /\ Len(polygon.exterior) = 3
           /\ polygon.exterior[1] = polygon.exterior[3]
           /\ polygon.exterior[1] # polygon.exterior[2]
           /\ Len(polygon.interiors) = 1
           /\ Len(polygon.interiors[1]) >= 1
           /\ Len(subject_owned.vertices[1][1]) = 2

\* C3: once a MultiLineString subject is converted, the buffer holds one
\* polygon descriptor with one path per line string, in order, each with
\* closed = 0 and a vertex run of as many vertices as the line string has
\* points, vertex k being the scaled point k: no vertex is dropped.
C3_OpenPathKeepsEveryVertex ==
    (Ran("ToOwnedSubject") /\ call.subject.kind = "MultiLineString") =>
      /\ Len(subject_owned.polygons) = 1
      /\ Len(subject_owned.paths) = 1
      /\ Len(subject_owned.vertices) = 1
      /\ Len(subject_owned.paths[1]) = Len(call.subject.lines)
      /\ Len(subject_owned.vertices[1]) = Len(call.subject.lines)
      /\ \A r \in 1..Len(call.subject.lines) :
           LET line == call.subject.lines[r]
               vs   == subject_owned.vertices[1][r]
           IN  /\ subject_owned.paths[1][r].closed = 0
               /\ Len(vs) = Len(line)
               /\ \A k \in 1..Len(line) : IsScaledVertex(vs[k], line[k], call.factor)
               /\ Ran("MaterializeSubject") =>
                    subject_owned.paths[1][r].vertices_count = Len(line)

\* A MultiLineString of a one-point path and a path of two different
\* points has been converted and materialized.
C3_Witness ==
    /\ Ran("MaterializeSubject")
    /\ call.subject.kind = "MultiLineString"
    /\ Len(call.subject.lines) = 2
    /\ Len(call.subject.lines[1]) = 1
    /\ Len(call.subject.lines[2]) = 2
    /\ call.subject.lines[2][1] # call.subject.lines[2][2]
    /\ subject_owned.paths[1][2].vertices_count = 2

\* The number of polygon descriptors a shape converts to: one per member of
\* a MultiPolygon, one for a Polygon, one for a MultiLineString.
DescriptorCount(shape) ==
    IF shape.kind = "MultiPolygon" THEN Len(shape.polys) ELSE 1

\* In the list, the first ns descriptors are tagged Subject and point into
\* the subject buffer, the other nc are tagged Clip and point into the clip
\* buffer, and no Clip descriptor precedes a Subject descriptor.
SubjectThenClip(list, ns, nc) ==
    /\ Len(list) = ns + nc
    /\ \A k \in 1..Len(list) :
         IF k <= ns
         THEN list[k].type_ = "ptSubject" /\ list[k].paths = View("subject", ns, k, 0)
         ELSE list[k].type_ = "ptClip" /\ list[k].paths = View("clip", nc, k - ns, 0)
    /\ \A a, b \in 1..Len(list) :
         (a < b) => ~(list[a].type_ = "ptClip" /\ list[b].type_ = "ptSubject")

\* C4: in every boolean operation the flat descriptor list, as collected
\* and as handed to the engine, is all descriptors of self (the left-hand
\* operand), tagged Subject, followed by all descriptors of other, tagged
\* Clip; the engine reads through them as many paths as the operands have
\* rings or line strings, in that order.
C4_SubjectBeforeClip ==
    LET ns == DescriptorCount(call.subject)
        nc == DescriptorCount(call.clip)
    IN  /\ (call.orch = "boolean" /\ Ran("Collect")) =>
              SubjectThenClip(polygons, ns, nc)
        /\ engineArgs.fn = "execute" =>
              /\ SubjectThenClip(engineArgs.polygons, ns, nc)
              /\ engineArgs.clip_type = ClipTypeOf(call.op)
              /\ engineArgs.valid
              /\ \A k \in 1..(ns + nc) :
                   LET sh  == IF k <= ns THEN call.subject ELSE call.clip
                       m   == IF k <= ns THEN k ELSE k - ns
                   IN  Len(engineArgs.input[k].paths) =
                         (IF sh.kind = "MultiLineString" THEN Len(sh.lines)
                          ELSE 1 + Len(sh.polys[m].interiors))

\* An xor of a MultiPolygon of two polygons with a polygon that has an
\* interior ring has reached the engine.
C4_Witness ==
    /\ engineArgs.fn = "execute"
    /\ call.op = "xor"
    /\ call.subject.kind = "MultiPolygon"
    /\ Len(call.subject.polys) = 2
    /\ call.clip.kind = "Polygon"
    /\ Len(call.clip.polys[1].interiors) = 1
    /\ Len(engineArgs.polygons) = 3

\* C5: both open-path shape types, LineString and MultiLineString, can
\* invoke difference and intersection against a closed-polygonal operand,
\* and offset: no such call is rejected; and neither can invoke union or
\* xor: no such call enters an orchestrator.
C5_OpenPathMenu ==
    call.subject.kind \in {"LineString", "MultiLineString"} =>
      /\ (pc = "rejected" /\ call.op \in {"difference", "intersection"}) =>
            call.clip.kind \notin {"Polygon", "MultiPolygon"}
      /\ pc = "rejected" => call.op # "offset"
      /\ pc \notin {"idle", "rejected"} =>
            call.op \in {"difference", "intersection", "offset"}

\* C8: for every JoinType and EndType passed to offset the engine receives
\* miterLimit = limit for Miter(limit) and 0 otherwise; roundPrecision = p
\* for Round(p), otherwise p' for OpenRound(p'), otherwise 0 (so Round(p)
\* wins over OpenRound(p')); and the type codes of the supplied variants.
C8_OffsetParameters ==
    engineArgs.fn = "offset" =>
      /\ call.jt.tag = "Miter" => engineArgs.miter_limit = call.jt.val
      /\ call.jt.tag # "Miter" => engineArgs.miter_limit = [n |-> 0, d |-> 1]
      /\ call.jt.tag = "Round" => engineArgs.round_precision = call.jt.val
      /\ (call.jt.tag # "Round" /\ call.et.tag = "OpenRound") =>
            engineArgs.round_precision = call.et.val
      /\ (call.jt.tag # "Round" /\ call.et.tag # "OpenRound") =>
            engineArgs.round_precision = [n |-> 0, d |-> 1]
      /\ engineArgs.join_type =
            (CASE call.jt.tag = "Square" -> "jtSquare"
               [] call.jt.tag = "Round"  -> "jtRound"
               [] call.jt.tag = "Miter"  -> "jtMiter")
      /\ engineArgs.end_type =
            (CASE call.et.tag = "ClosedPolygon" -> "etClosedPolygon"
               [] call.et.tag = "ClosedLine"    -> "etClosedLine"
               [] call.et.tag = "OpenButt"      -> "etOpenButt"
               [] call.et.tag = "OpenSquare"    -> "etOpenSquare"
               [] call.et.tag = "OpenRound"     -> "etOpenRound")

\* The engine's offset has been called with Round(p) and OpenRound(p'), p
\* and p' different, and received p.
C8_Witness ==
    /\ engineArgs.fn = "offset"
    /\ call.jt.tag = "Round"
    /\ call.et.tag = "OpenRound"
    /\ call.jt.val # call.et.val
    /\ engineArgs.round_precision = call.jt.val
    /\ engineArgs.end_type = "etOpenRound"

Range(seq) == {seq[k] : k \in 1..Len(seq)}

\* Every coordinate of the shape: of its polygons' rings and of its lines.
CoordinatesOf(shape) ==
    UNION {UNION {Range(RingOf(shape.polys[i], r)) :
                    r \in 1..(1 + Len(shape.polys[i].interiors))} :
           i \in 1..Len(shape.polys)}
    \cup UNION {Range(shape.lines[i]) : i \in 1..Len(shape.lines)}

\* C9: for every public offset call (delta, join, end, factor) on a closed
\* or an open shape, the distance the engine's offset receives is
\* delta * factor, the factor applied once; every vertex the engine reads is
\* a coordinate of the subject scaled by the same factor; and every
\* coordinate of the decoded result is a vertex of the engine's result
\* divided by the same factor.
C9_OffsetDeltaScaledOnce ==
    engineArgs.fn = "offset" =>
      /\ engineArgs.delta.n * (call.pub_delta.d * call.factor.d)
            = call.pub_delta.n * call.factor.n * engineArgs.delta.d
      /\ engineArgs.valid
      /\ \A i \in 1..Len(engineArgs.input) :
           \A j \in 1..Len(engineArgs.input[i].paths) :
             \A k \in 1..Len(engineArgs.input[i].paths[j].vertices) :
               \E c \in CoordinatesOf(call.subject) :
                 IsScaledVertex(engineArgs.input[i].paths[j].vertices[k], c, call.factor)
      /\ Ran("Decode") =>
           \A i \in 1..Len(result.polys) :
             \A r \in 1..(1 + Len(result.polys[i].interiors)) :
               \A k \in 1..Len(RingOf(result.polys[i], r)) :
                 \E a \in 1..Len(solution) : \E b \in 1..Len(solution[a]) :
                   \E e \in 1..Len(solution[a][b]) :
                     IsUnscaledVertex(RingOf(result.polys[i], r)[k],
                                      solution[a][b][e], call.factor)

\* offset(-1/2, ..., factor 2) on a non-empty subject has handed the engine
\* the distance -1 and decoded a non-empty result.
C9_Witness ==
    /\ engineArgs.fn = "offset"
    /\ Ran("Decode")
    /\ call.pub_delta = [n |-> -1, d |-> 2]
    /\ call.factor = [n |-> 2, d |-> 1]
    /\ engineArgs.delta = [n |-> -1, d |-> 1]
    /\ \E i \in 1..Len(engineArgs.input) :
         \E j \in 1..Len(engineArgs.input[i].paths) :
           Len(engineArgs.input[i].paths[j].vertices) >= 1
    /\ Len(result.polys) >= 1

\* The phase of a statement: conversion into the owned buffers (with the
\* derivation of the offset parameters), materialization of the descriptors
\* (with the collection of the flat list), the engine call, decoding,
\* release, return.
Phase(step) ==
    CASE step \in {"DeriveParams", "ToOwnedSubject", "ToOwnedClip"} -> "convert"
      [] step \in {"MaterializeSubject", "MaterializeClip", "Collect"} -> "materialize"
      [] step = "EngineCall" -> "engine"
      [] step = "Decode" -> "decode"
      [] step = "Free" -> "release"
      [] step = "Return" -> "return"

PhaseOrder == <<"convert", "materialize", "engine", "decode", "release", "return">>

PhaseRank(step) == CHOOSE k \in 1..Len(PhaseOrder) : PhaseOrder[k] = Phase(step)

\* The statements an orchestrator runs before the engine call.
Preparation(orch) ==
    IF orch = "boolean"
    THEN {"ToOwnedSubject", "ToOwnedClip", "MaterializeSubject", "MaterializeClip",
          "Collect"}
    ELSE {"ToOwnedSubject", "MaterializeSubject", "Collect"}

\* From the collection of the descriptor list until the engine call has
\* just returned.
EngineWindow ==
    /\ Ran("Collect")
    /\ ~Ran("EngineCall") \/ steps[Len(steps)] = "EngineCall"

\* C10: in every orchestrator call the statements run in the order
\* conversions, materialization, one engine call, decoding, release; every
\* statement runs at most once and none is skipped before a later one; from
\* the collection of the descriptors until the engine call has returned
\* both owned buffers are live and unmutated since materialization, so
\* every pointer the engine follows is valid and points into the buffer of
\* the operand it describes; the engine has read through valid pointers;
\* and the result is not released when the decoder reads it.
C10_StepOrderAndLiveViews ==
    /\ \A a, b \in 1..Len(steps) :
         a < b => PhaseRank(steps[a]) < PhaseRank(steps[b])
                  \/ (Phase(steps[a]) = Phase(steps[b]) /\ steps[a] # steps[b])
    /\ Ran("EngineCall") => \A st \in Preparation(call.orch) : Ran(st)
    /\ Ran("Decode") => Ran("EngineCall")
    /\ Ran("Free") => Ran("Decode")
    /\ Ran("Return") => Ran("Free")
    /\ pc = "Decode" => freed = 0
    /\ EngineWindow =>
         /\ AllViewsValid(polygons, subject_owned, clip_owned, mem)
         /\ \A k \in 1..Len(polygons) :
              polygons[k].paths.buf =
                (IF polygons[k].type_ = "ptSubject" THEN "subject" ELSE "clip")
    /\ engineArgs.fn # "none" => engineArgs.valid /\ engineArgs.polygons = polygons

\* The engine call of a boolean operation has just returned, having read a
\* non-empty vertex run of each operand through valid pointers.
C10_Witness ==
    /\ call.orch = "boolean"
    /\ pc = "Decode"
    /\ engineArgs.valid
    /\ Len(engineArgs.input) = 2
    /\ \A i \in 1..2 : \E j \in 1..Len(engineArgs.input[i].paths) :
         Len(engineArgs.input[i].paths[j].vertices) >= 1
    /\ mem.subject.live /\ mem.clip.live

\* The indices of the engine polygons that have at least one path, in order.
NonEmptyPolygons(sol) ==
    SelectSeq([i \in 1..Len(sol) |-> i], LAMBDA i : Len(sol[i]) >= 1)

\* The ring starts with the vertices of the path, each divided by f, in the
\* path's order, and has at most one coordinate more.
StartsWithPath(ring, path, f) ==
    /\ Len(ring) \in {Len(path), Len(path) + 1}
    /\ \A k \in 1..Len(path) : IsUnscaledVertex(ring[k], path[k], f)

\* C6: decoding an engine result as MultiPolygon yields one polygon per
\* engine polygon that has at least one path, in engine order; its exterior
\* comes from the engine polygon's first path and its interiors from the
\* subsequent paths, one each, in order; an engine polygon without paths
\* contributes nothing and does not disturb the others.
C6_MultiPolygonGrouping ==
    (Ran("Decode") /\ call.target = "MultiPolygon") =>
      LET keep == NonEmptyPolygons(solution)
      IN  /\ result.kind = "MultiPolygon"
          /\ Len(result.polys) = Len(keep)
          /\ \A k \in 1..Len(keep) :
               LET paths   == solution[keep[k]]
                   polygon == result.polys[k]
               IN  /\ StartsWithPath(polygon.exterior, paths[1], call.factor)
                   /\ Len(polygon.interiors) = Len(paths) - 1
                   /\ \A j \in 1..(Len(paths) - 1) :
                        StartsWithPath(polygon.interiors[j], paths[j + 1], call.factor)

\* A result whose first engine polygon has no path and whose second has an
\* exterior and a hole with different vertices has been decoded as
\* MultiPolygon.
C6_Witness ==
    /\ Ran("Decode")
    /\ call.target = "MultiPolygon"
    /\ Len(solution) = 2
    /\ Len(solution[1]) = 0
    /\ Len(solution[2]) = 2
    /\ Len(solution[2][1]) >= 1 /\ Len(solution[2][2]) >= 1
    /\ solution[2][1][1] # solution[2][2][1]
    /\ Len(result.polys) = 1
    /\ Len(result.polys[1].interiors) = 1

\* Every path of the engine result, in polygon order, then path order.
RECURSIVE PathsInOrder(_)
PathsInOrder(sol) ==
    IF sol = <<>> THEN <<>> ELSE Head(sol) \o PathsInOrder(Tail(sol))

\* The line has exactly the vertices of the path, each divided by f, in the
\* path's order.
IsExactlyPath(line, path, f) ==
    /\ Len(line) = Len(path)
    /\ \A k \in 1..Len(path) : IsUnscaledVertex(line[k], path[k], f)

\* The ring has the vertices of the path, each divided by f, in the path's
\* order, followed by a copy of its first coordinate when the path is
\* non-empty and its first and last vertices differ, and by nothing
\* otherwise.
IsClosedPath(ring, path, f) ==
    LET n    == Len(path)
        open == n >= 1 /\ path[1] # path[n]
    IN  /\ Len(ring) = (IF open THEN n + 1 ELSE n)
        /\ \A k \in 1..n : IsUnscaledVertex(ring[k], path[k], f)
        /\ open => ring[n + 1] = ring[1]

\* C7 as claimed: for both decode targets every ring or line returned has
\* exactly the vertices of the engine path it was decoded from, in the same
\* order, each divided by factor; no vertex is added.
C7_ExactVertices ==
    Ran("Decode") =>
      /\ call.target = "MultiLineString" =>
           LET paths == PathsInOrder(solution)
           IN  /\ Len(result.lines) = Len(paths)
               /\ \A k \in 1..Len(paths) :
                    IsExactlyPath(result.lines[k], paths[k], call.factor)
      /\ call.target = "MultiPolygon" =>
           LET keep == NonEmptyPolygons(solution)
           IN  /\ Len(result.polys) = Len(keep)
               /\ \A k \in 1..Len(keep) :
                    \A j \in 1..Len(solution[keep[k]]) :
                      IsExactlyPath(RingOf(result.polys[k], j),
                                    solution[keep[k]][j], call.factor)

\* C7 as amended: every line of a MultiLineString result has exactly the
\* vertices of its engine path, in order, each divided by factor; every
\* ring of a MultiPolygon result has them too, in order, none reversed,
\* removed or deduplicated, followed by one closing copy of the first
\* coordinate exactly when the engine path is non-empty and its first and
\* last vertices differ.
C7_VerticesUpToClosing ==
    Ran("Decode") =>
      /\ call.target = "MultiLineString" =>
           LET paths == PathsInOrder(solution)
           IN  /\ Len(result.lines) = Len(paths)
               /\ \A k \in 1..Len(paths) :
                    IsExactlyPath(result.lines[k], paths[k], call.factor)
      /\ call.target = "MultiPolygon" =>
           LET keep == NonEmptyPolygons(solution)
           IN  /\ Len(result.polys) = Len(keep)
               /\ \A k \in 1..Len(keep) :
                    /\ Len(result.polys[k].interiors) = Len(solution[keep[k]]) - 1
                    /\ \A j \in 1..Len(solution[keep[k]]) :
                         IsClosedPath(RingOf(result.polys[k], j),
                                      solution[keep[k]][j], call.factor)

\* An engine path of three vertices, the first and the last different, has
\* been decoded with factor 2 into a ring of four coordinates.
C7_Witness ==
    /\ Ran("Decode")
    /\ call.target = "MultiPolygon"
    /\ call.factor = [n |-> 2, d |-> 1]
    /\ Len(solution) >= 1
    /\ Len(solution[1]) >= 1
    /\ Len(solution[1][1]) = 3
    /\ solution[1][1][1] # solution[1][1][3]
    /\ Len(result.polys[1].exterior) = 4

---------------------------------------------------------------------------
(* Degenerate input.                                                       *)

\* The point runs of a shape, grouped as the conversion groups them: the
\* rings of each polygon (exterior, then interiors), or the line strings of
\* a MultiLineString as one group.
PointRuns(shape) ==
    IF shape.kind = "MultiLineString" THEN <<shape.lines>>
    ELSE [i \in 1..Len(shape.polys) |->
            [r \in 1..(1 + Len(shape.polys[i].interiors)) |->
                RingOf(shape.polys[i], r)]]

\* The positions in the list of the descriptors tagged Subject.
SubjectDescriptors(list) == {k \in 1..Len(list) : list[k].type_ = "ptSubject"}

\* Every ring or path of the subject that has no point is, in the list
\* handed to the engine, a path descriptor with vertices_count 0: path r of
\* the list's i-th descriptor, which is tagged Subject.
ZeroPointRunsHaveCountZero(list) ==
    LET runs == PointRuns(call.subject)
    IN  \A i \in 1..Len(runs) : \A r \in 1..Len(runs[i]) :
          (Len(runs[i][r]) = 0) =>
             /\ i <= Len(list)
             /\ list[i].type_ = "ptSubject"
             /\ list[i].paths.buf = "subject"
             /\ r <= list[i].paths_count
             /\ r <= Len(subject_owned.paths[list[i].paths.i])
             /\ subject_owned.paths[list[i].paths.i][r].vertices_count = 0
             /\ subject_owned.vertices[list[i].paths.i][r] = <<>>

\* No statement of the conversion stops on the input it is given: from the
\* conversion of the subject to the collection of the list, the statement
\* about to run can run.
ConversionProceeds ==
    /\ pc = "ToOwnedSubject" => ENABLED ToOwnedSubject
    /\ pc = "ToOwnedClip" => ENABLED ToOwnedClip
    /\ pc = "MaterializeSubject" => ENABLED MaterializeSubject
    /\ pc = "MaterializeClip" => ENABLED MaterializeClip
    /\ pc = "Collect" => ENABLED Collect

\* C11 (as claimed): degenerate input is converted without error and
\* without validation: a ring or path with zero points yields a path
\* descriptor with vertices_count 0, and a subject with zero rings or paths
\* (an empty MultiPolygon or an empty MultiLineString) yields a descriptor
\* with count 0 in the list handed to the engine; no conversion statement
\* stops on empty input.
C11_DegenerateYieldsZeroCountDescriptor ==
    /\ ConversionProceeds
    /\ engineArgs.fn # "none" =>
         /\ engineArgs.valid
         /\ ZeroPointRunsHaveCountZero(engineArgs.polygons)
         /\ (call.subject.polys = <<>> /\ call.subject.lines = <<>>) =>
              \E k \in SubjectDescriptors(engineArgs.polygons) :
                  engineArgs.polygons[k].paths_count = 0

\* C11 (amended): degenerate input is converted without error and without
\* validation: a ring or path with zero points yields a path descriptor
\* with vertices_count 0; an empty MultiLineString yields exactly one
\* descriptor, with paths_count 0, in the list handed to the engine; an
\* empty MultiPolygon yields no descriptor at all, so the list holds only
\* the other operand's descriptors (none in an offset); no conversion
\* statement stops on empty input.
C11_DegenerateConvertedSilently ==
    /\ ConversionProceeds
    /\ engineArgs.fn # "none" =>
         /\ engineArgs.valid
         /\ ZeroPointRunsHaveCountZero(engineArgs.polygons)
         /\ (call.subject.kind = "MultiLineString" /\ call.subject.lines = <<>>) =>
              /\ SubjectDescriptors(engineArgs.polygons) = {1}
              /\ engineArgs.polygons[1].paths_count = 0
              /\ engineArgs.input[1].paths = <<>>
         /\ (call.subject.kind = "MultiPolygon" /\ call.subject.polys = <<>>) =>
              /\ SubjectDescriptors(engineArgs.polygons) = {}
              /\ Len(engineArgs.polygons) =
                   (IF call.orch = "boolean" THEN DescriptorCount(call.clip) ELSE 0)

\* The difference of an empty MultiPolygon and a polygon has reached the
\* engine with a list of the polygon's descriptor alone.
C11_Witness ==
    /\ engineArgs.fn = "execute"
    /\ call.subject.kind = "MultiPolygon"
    /\ call.subject.polys = <<>>
    /\ Len(engineArgs.polygons) = 1
    /\ engineArgs.polygons[1].type_ = "ptClip"
    /\ engineArgs.polygons[1].paths_count >= 1

---------------------------------------------------------------------------
(* The structure of an OwnedPolygon.                                       *)

\* The three vectors are index-aligned: as many path lists and vertex-run
\* lists as descriptors, and in each as many vertex runs as paths.
OwnedAligned(o) ==
    /\ Len(o.polygons) = Len(o.paths)
    /\ Len(o.paths) = Len(o.vertices)
    /\ \A i \in 1..Len(o.paths) : Len(o.paths[i]) = Len(o.vertices[i])

\* Every descriptor holds the location and the length of what it
\* describes, and none holds the null view it was pushed with.
OwnedDescriptorsSet(o, buf, epoch) ==
    /\ \A i \in 1..Len(o.polygons) :
         /\ o.polygons[i].paths # NullView
         /\ o.polygons[i].paths = [buf |-> buf, epoch |-> epoch, i |-> i, j |-> 0]
         /\ o.polygons[i].paths_count = Len(o.paths[i])
    /\ \A i \in 1..Len(o.paths) : \A j \in 1..Len(o.paths[i]) :
         /\ o.paths[i][j].vertices # NullView
         /\ o.paths[i][j].vertices = [buf |-> buf, epoch |-> epoch, i |-> i, j |-> j]
         /\ o.paths[i][j].vertices_count = Len(o.vertices[i][j])

\* Every stored path list is the target of a polygon descriptor and every
\* stored vertex run the target of a path descriptor.
OwnedAllReferenced(o) ==
    /\ \A i \in 1..Len(o.paths) :
         \E k \in 1..Len(o.polygons) : o.polygons[k].paths.i = i
    /\ \A i \in 1..Len(o.vertices) : \A j \in 1..Len(o.vertices[i]) :
         \E a \in 1..Len(o.paths) : \E b \in 1..Len(o.paths[a]) :
             /\ o.paths[a][b].vertices.i = i
             /\ o.paths[a][b].vertices.j = j

\* C12: after any sequence of add_polygon, add_polygons and
\* add_line_strings calls the vectors polygons, paths and vertices have
\* equal length and paths[i] and vertices[i] have equal length for every i;
\* so right after get_clipper_polygons every polygon descriptor i has
\* paths_count = len(paths[i]) and every path descriptor (i, j) has
\* vertices_count = len(vertices[i][j]), no descriptor is left at its
\* initial null view, and no stored path list or vertex run is left
\* unreferenced.
C12_OwnedPolygonAligned ==
    /\ OwnedAligned(subject_owned)
    /\ pc = "materialized" =>
         /\ OwnedDescriptorsSet(subject_owned, "subject", mem.subject.epoch)
         /\ OwnedAllReferenced(subject_owned)

\* A buffer built by two different add_* calls has been walked: a polygon
\* with a vertex in its exterior, and a MultiLineString with no path.
C12_Witness ==
    /\ pc = "materialized"
    /\ Len(subject_owned.polygons) = 2
    /\ \E i \in 1..2 :
         /\ subject_owned.polygons[i].paths_count = 1
         /\ subject_owned.paths[i][1].closed = 1
         /\ subject_owned.paths[i][1].vertices_count = 1
         /\ subject_owned.polygons[3 - i].paths_count = 0
         /\ subject_owned.polygons[3 - i].paths # NullView

==========================================================================
